---- MODULE Spec2Model ----
(***************************************************************************)
(* Model of the chat backend: the chat endpoint (app/api/chat.py), the     *)
(* turn orchestrator and embedded tool-call scanner                        *)
(* (app/agents/chat_agent.py) and the task / identity tools (app/mcp).     *)
(*                                                                         *)
(* Text is a sequence of lexemes.  A user message is a sequence of its     *)
(* characters.  Assistant text is a sequence of characters (whitespace,    *)
(* backticks, braces, prose) in which each JSON lexeme that carries no     *)
(* brace ("tool":"add_task","params":  or  "title":"a") is one element.    *)
(* Positions are 0-based offsets as in the Python source.                  *)
(***************************************************************************)
EXTENDS Integers, Sequences, FiniteSets, TLC

(* ------------------------------ bounds --------------------------------- *)
\* largest number of segments an assistant text is assembled from
MaxSegs == 2
\* largest length of an assistant text assembled from braces and call heads
MaxBrace == 6

(* --------------------------- string helpers ---------------------------- *)
Min(S) == CHOOSE x \in S : \A y \in S : x <= y
Max(S) == CHOOSE x \in S : \A y \in S : x >= y

\* str.isspace for one character
IsSpace(c) == c \in {" ", "\n", "\t"}

\* s[a:b] with 0 <= a, b (Python slice)
Slice(s, a, b) ==
  LET hi == IF b > Len(s) THEN Len(s) ELSE b
  IN  IF a >= hi THEN <<>> ELSE SubSeq(s, a + 1, hi)

\* s[i]
At(s, i) == s[i + 1]

\* s.find(pat, from): lowest offset >= from at which pat occurs, or -1
Find(s, pat, from) ==
  LET cands == {i \in from..(Len(s) - Len(pat)) : SubSeq(s, i + 1, i + Len(pat)) = pat}
  IN  IF cands = {} THEN -1 ELSE Min(cands)

\* pat in s
Contains(s, pat) == Find(s, pat, 0) # -1

\* the elements of s at the offsets in K, in order
RECURSIVE PickFrom(_, _, _)
PickFrom(s, K, i) ==
  IF i >= Len(s) THEN <<>>
  ELSE IF i \in K THEN <<At(s, i)>> \o PickFrom(s, K, i + 1)
  ELSE PickFrom(s, K, i + 1)
Pick(s, K) == PickFrom(s, K, 0)

\* offsets that survive s.strip()
StripKeep(s) ==
  LET non == {i \in 0..(Len(s) - 1) : ~IsSpace(At(s, i))}
  IN  IF non = {} THEN {} ELSE Min(non)..Max(non)

\* s.strip()
Strip(s) == Pick(s, StripKeep(s))

\* offsets removed by s.replace(pat, ""): every non-overlapping occurrence,
\* found left to right
RECURSIVE ReplaceGone(_, _, _)
ReplaceGone(s, pat, from) ==
  LET i == Find(s, pat, from)
  IN  IF Len(pat) = 0 \/ i = -1 THEN {}
      ELSE (i..(i + Len(pat) - 1)) \cup ReplaceGone(s, pat, i + Len(pat))

\* offsets that survive s.replace(pat, "")
ReplaceKeep(s, pat) == (0..(Len(s) - 1)) \ ReplaceGone(s, pat, 0)

\* a sequence of n zeros: the origin marks of text the Rewriter appends
Zeros(n) == [i \in 1..n |-> 0]

(* ------------------------------ lexemes -------------------------------- *)
\* the backtick character (written by name: the literal cannot appear in a
\* string of this language)
BT == "<backtick>"
\* start_marker / end_marker
Fence == <<BT, BT, BT>>

\* the part of an embedded call between its opening brace and the params
\* value, one lexeme per tool name
H_add      == "\"tool\":\"add_task\",\"params\":"
H_list     == "\"tool\":\"list_tasks\",\"params\":"
H_complete == "\"tool\":\"complete_task\",\"params\":"
H_update   == "\"tool\":\"update_task\",\"params\":"
H_delete   == "\"tool\":\"delete_task\",\"params\":"
H_whoami   == "\"tool\":\"get_current_user\",\"params\":"
H_unknown  == "\"tool\":\"frobnicate\",\"params\":"
\* the same with single quotes: the inline pattern accepts it, json.loads
\* does not
H_sq_add   == "'tool':'add_task','params':"

\* tool name carried by each head lexeme json.loads accepts
HeadTool ==
  (H_add :> "add_task") @@ (H_list :> "list_tasks") @@
  (H_complete :> "complete_task") @@ (H_update :> "update_task") @@
  (H_delete :> "delete_task") @@ (H_whoami :> "get_current_user") @@
  (H_unknown :> "frobnicate")

\* head lexemes the inline pattern of Pass B matches after "{" and whitespace
RegexHeads == DOMAIN HeadTool \cup {H_sq_add}

\* members of a params object, one lexeme per object body
B_title_a   == "\"title\":\"a\""
B_title_id  == "\"title\":\"a\",\"user_id\":\"u2\",\"email\":\"u2@x\""
B_pending   == "\"status\":\"pending\""
B_id1       == "\"task_id\":\"1\""
B_id2       == "\"task_id\":\"2\""
B_id9       == "\"task_id\":\"9\""
B_id1_id    == "\"task_id\":\"1\",\"user_id\":\"u2\""
B_upd1      == "\"task_id\":\"1\",\"title\":\"b\""
B_upd2      == "\"task_id\":\"2\",\"completed\":true"
B_whoami_id == "\"user_id\":\"u2\",\"email\":\"u2@x\""

\* the mapping each body lexeme decodes to
BodyMap ==
  (B_title_a :> ("title" :> <<"a">>)) @@
  (B_title_id :> ("title" :> <<"a">> @@ "user_id" :> <<"u2">> @@ "email" :> <<"u2@x">>)) @@
  (B_pending :> ("status" :> <<"pending">>)) @@
  (B_id1 :> ("task_id" :> <<"1">>)) @@
  (B_id2 :> ("task_id" :> <<"2">>)) @@
  (B_id9 :> ("task_id" :> <<"9">>)) @@
  (B_id1_id :> ("task_id" :> <<"1">> @@ "user_id" :> <<"u2">>)) @@
  (B_upd1 :> ("task_id" :> <<"1">> @@ "title" :> <<"b">>)) @@
  (B_upd2 :> ("task_id" :> <<"2">> @@ "completed" :> <<"true">>)) @@
  (B_whoami_id :> ("user_id" :> <<"u2">> @@ "email" :> <<"u2@x">>))

\* a key lexeme that must be followed by a value, and scalar JSON values
K_x == "\"x\":"
Scalars == {"1", "true"}

EmptyMap == [k \in {} |-> <<>>]

(* ------------------------------ json.loads ----------------------------- *)
BadJson ==
  [ok |-> FALSE, next |-> 0, isDict |-> FALSE, map |-> EmptyMap,
   isCall |-> FALSE, tool |-> "", pIsDict |-> FALSE, pMap |-> EmptyMap]

\* decode one JSON value of the lexeme sequence w (whitespace removed)
\* starting at index i; next is the index after the value
RECURSIVE ParseVal(_, _)
ParseVal(w, i) ==
  IF i > Len(w) THEN BadJson
  ELSE IF w[i] \in Scalars
    THEN [BadJson EXCEPT !.ok = TRUE, !.next = i + 1]
  ELSE IF w[i] # "{" \/ i + 1 > Len(w) THEN BadJson
  ELSE IF w[i + 1] = "}"
    THEN [BadJson EXCEPT !.ok = TRUE, !.next = i + 2, !.isDict = TRUE]
  ELSE IF w[i + 1] \in DOMAIN BodyMap
    THEN IF i + 2 <= Len(w) /\ w[i + 2] = "}"
           THEN [BadJson EXCEPT !.ok = TRUE, !.next = i + 3, !.isDict = TRUE,
                                !.map = BodyMap[w[i + 1]]]
           ELSE BadJson
  ELSE IF w[i + 1] \in DOMAIN HeadTool \cup {K_x}
    THEN LET v == ParseVal(w, i + 2)
         IN  IF v.ok /\ v.next <= Len(w) /\ w[v.next] = "}"
               THEN IF w[i + 1] = K_x
                      THEN [BadJson EXCEPT !.ok = TRUE, !.next = v.next + 1,
                                           !.isDict = TRUE]
                      ELSE [BadJson EXCEPT !.ok = TRUE, !.next = v.next + 1,
                                           !.isDict = TRUE,
                                           !.isCall = TRUE,
                                           !.tool = HeadTool[w[i + 1]],
                                           !.pIsDict = v.isDict,
                                           !.pMap = v.map]
               ELSE BadJson
  ELSE BadJson

\* json.loads reading single-quoted strings as well
JsonLoads_lenient(content) ==
  LET dq == [i \in 1..Len(content) |->
               IF content[i] = H_sq_add THEN H_add ELSE content[i]]
      w == SelectSeq(dq, LAMBDA c : ~IsSpace(c))
      v == ParseVal(w, 1)
  IN  IF v.ok /\ v.next = Len(w) + 1 THEN v ELSE BadJson

\* json.loads(content): ok is FALSE where it raises JSONDecodeError; isCall is
\* isinstance(parsed, dict) and "tool" in parsed and "params" in parsed
JsonLoads(content) ==
  LET w == SelectSeq(content, LAMBDA c : ~IsSpace(c))
      v == ParseVal(w, 1)
  IN  IF v.ok /\ v.next = Len(w) + 1 THEN v ELSE BadJson

(* ------------------------- _extract_json_object ------------------------ *)
\* the while loop of _extract_json_object from offset i on
RECURSIVE ExtractWalk(_, _, _, _, _)
ExtractWalk(text, start_pos, i, brace_count, start_brace_pos) ==
  IF i >= Len(text)
    THEN [found |-> FALSE, obj |-> <<>>, from |-> start_pos, end |-> start_pos]
  ELSE IF At(text, i) = "{"
    THEN ExtractWalk(text, start_pos, i + 1, brace_count + 1,
                     IF brace_count = 0 THEN i ELSE start_brace_pos)
  ELSE IF At(text, i) = "}"
    THEN IF brace_count - 1 = 0 /\ start_brace_pos # -1
           THEN [found |-> TRUE, obj |-> Slice(text, start_brace_pos, i + 1),
                 from |-> start_brace_pos, end |-> i + 1]
           ELSE ExtractWalk(text, start_pos, i + 1, brace_count - 1, start_brace_pos)
  ELSE ExtractWalk(text, start_pos, i + 1, brace_count, start_brace_pos)

\* _extract_json_object ending the object at the first closing brace
_extract_json_object_first_close(text, start_pos) ==
  LET opens == {j \in start_pos..(Len(text) - 1) : At(text, j) = "{"}
      closes == {j \in start_pos..(Len(text) - 1) : At(text, j) = "}"}
  IN  IF opens # {} /\ closes # {} /\ Min(opens) < Min(closes)
        THEN [found |-> TRUE, obj |-> Slice(text, Min(opens), Min(closes) + 1),
              from |-> Min(opens), end |-> Min(closes) + 1]
        ELSE [found |-> FALSE, obj |-> <<>>, from |-> start_pos, end |-> start_pos]

\* _extract_json_object(text, start_pos): found is FALSE for (None, start_pos)
_extract_json_object(text, start_pos) == ExtractWalk(text, start_pos, start_pos, 0, -1)

(* ----------------------- inline pattern of Pass B ---------------------- *)
\* offsets at which json_pattern matches: "{", optional whitespace, then a
\* quoted tool name, a comma and the params key
PatternMatches(text) ==
  {i \in 0..(Len(text) - 1) :
     /\ At(text, i) = "{"
     /\ \E j \in (i + 1)..(Len(text) - 1) :
          /\ At(text, j) \in RegexHeads
          /\ \A k \in (i + 1)..(j - 1) : IsSpace(At(text, k))}

\* [m.start() for m in re.finditer(json_pattern, text)]
StartPositions(text) ==
  LET S == PatternMatches(text)
  IN  [i \in 1..Cardinality(S) |->
         CHOOSE k \in S : Cardinality({j \in S : j < k}) = i - 1]

(* --------------------------- _detect_intent ---------------------------- *)
UpperToLower ==
  ("A" :> "a") @@
  ("B" :> "b") @@
  ("C" :> "c") @@
  ("D" :> "d") @@
  ("E" :> "e") @@
  ("F" :> "f") @@
  ("G" :> "g") @@
  ("H" :> "h") @@
  ("I" :> "i") @@
  ("J" :> "j") @@
  ("K" :> "k") @@
  ("L" :> "l") @@
  ("M" :> "m") @@
  ("N" :> "n") @@
  ("O" :> "o") @@
  ("P" :> "p") @@
  ("Q" :> "q") @@
  ("R" :> "r") @@
  ("S" :> "s") @@
  ("T" :> "t") @@
  ("U" :> "u") @@
  ("V" :> "v") @@
  ("W" :> "w") @@
  ("X" :> "x") @@
  ("Y" :> "y") @@
  ("Z" :> "z")

\* message.lower()
Lower(s) == [i \in 1..Len(s) |-> IF s[i] \in DOMAIN UpperToLower THEN UpperToLower[s[i]] ELSE s[i]]

KW_add      == <<"a", "d", "d">>
KW_create   == <<"c", "r", "e", "a", "t", "e">>
KW_new_task == <<"n", "e", "w", " ", "t", "a", "s", "k">>
KW_delete   == <<"d", "e", "l", "e", "t", "e">>
KW_remove   == <<"r", "e", "m", "o", "v", "e">>
KW_complete == <<"c", "o", "m", "p", "l", "e", "t", "e">>
KW_done     == <<"d", "o", "n", "e">>
KW_finish   == <<"f", "i", "n", "i", "s", "h">>
KW_list     == <<"l", "i", "s", "t">>
KW_show     == <<"s", "h", "o", "w">>
KW_tasks    == <<"t", "a", "s", "k", "s">>
KW_who_am_i == <<"w", "h", "o", " ", "a", "m", " ", "i">>
KW_my_email == <<"m", "y", " ", "e", "m", "a", "i", "l">>

\* any(w in msg for w in words)
AnyIn(words, msg) == \E w \in words : Contains(msg, w)

\* _detect_intent with the delete keywords tested first
_detect_intent_delete_first(message) ==
  LET msg == Lower(message)
  IN  IF AnyIn({KW_delete, KW_remove}, msg) THEN "delete_task"
      ELSE IF AnyIn({KW_add, KW_create, KW_new_task}, msg) THEN "add_task"
      ELSE IF AnyIn({KW_complete, KW_done, KW_finish}, msg) THEN "complete_task"
      ELSE IF AnyIn({KW_list, KW_show, KW_tasks}, msg) THEN "list_tasks"
      ELSE IF AnyIn({KW_who_am_i, KW_my_email}, msg) THEN "get_current_user"
      ELSE ""

\* _detect_intent(message); "" stands for None
_detect_intent(message) ==
  LET msg == Lower(message)
  IN  IF AnyIn({KW_add, KW_create, KW_new_task}, msg) THEN "add_task"
      ELSE IF AnyIn({KW_delete, KW_remove}, msg) THEN "delete_task"
      ELSE IF AnyIn({KW_complete, KW_done, KW_finish}, msg) THEN "complete_task"
      ELSE IF AnyIn({KW_list, KW_show, KW_tasks}, msg) THEN "list_tasks"
      ELSE IF AnyIn({KW_who_am_i, KW_my_email}, msg) THEN "get_current_user"
      ELSE ""

(* -------------------------- _extract_task_info ------------------------- *)
\* the separators with "to" tried before "task"
Separators_to_first == <<<<"\"">>, <<"'">>, <<"t", "o">>, <<"t", "a", "s", "k">>, <<"f", "o", "r", " ", "m", "e">>, <<"m", "e">>>>

\* the separators tried for add_task, in this order
Separators == <<<<"\"">>, <<"'">>, <<"t", "a", "s", "k">>, <<"f", "o", "r", " ", "m", "e">>, <<"m", "e">>, <<"t", "o">>>>

\* message.split(separator, 1)[1], for a separator that occurs in message
AfterFirst(message, sep) == Slice(message, Find(message, sep, 0) + Len(sep), Len(message))

\* s.strip(ch) for a single character ch
StripChar(s, ch) ==
  LET non == {i \in 0..(Len(s) - 1) : At(s, i) # ch}
  IN  IF non = {} THEN <<>> ELSE Slice(s, Min(non), Max(non) + 1)

\* parts[1].strip().strip('"').strip("'")
CleanTitle(part) == StripChar(StripChar(Strip(part), "\""), "'")

\* the for loop over the separators, from the k-th separator on: the first
\* separator that occurs in the message and leaves a non-empty title decides;
\* found is FALSE when the loop ends without returning
RECURSIVE TitleLoop(_, _)
TitleLoop(message, k) ==
  IF k > Len(Separators) THEN [found |-> FALSE, title |-> <<>>]
  ELSE IF Contains(message, Separators[k])
            /\ CleanTitle(AfterFirst(message, Separators[k])) # <<>>
    THEN [found |-> TRUE, title |-> CleanTitle(AfterFirst(message, Separators[k]))]
  ELSE TitleLoop(message, k + 1)

Digits == {"0", "1", "2", "3", "4", "5", "6", "7", "8", "9"}
Letters == DOMAIN UpperToLower \cup {UpperToLower[c] : c \in DOMAIN UpperToLower}
\* \w
IsWord(c) == c \in Digits \cup Letters \cup {"_"}
IsQuote(c) == c \in {"\"", "'"}

\* re.search(r'\b(\d+)\b', message): the offsets [from, to) of the first run
\* of digits that has no word character on either side, or from = -1
NumberMatch(message) ==
  LET n == Len(message)
      runs == {r \in (0..(n - 1)) \X (1..n) :
                 /\ r[1] < r[2]
                 /\ \A i \in r[1]..(r[2] - 1) : At(message, i) \in Digits
                 /\ (r[1] = 0 \/ ~IsWord(At(message, r[1] - 1)))
                 /\ (r[2] = n \/ ~IsWord(At(message, r[2])))}
  IN  IF runs = {} THEN <<-1, -1>>
      ELSE CHOOSE r \in runs : \A q \in runs : r[1] <= q[1]

\* re.search(r'["\']([^"\']+)["\']', message): the offsets [from, to) of
\* group 1 of the first match, or from = -1
QuoteMatch(message) ==
  LET n == Len(message)
      ms == {r \in (1..n) \X (1..n) :
               /\ r[1] < r[2] /\ r[2] < n
               /\ IsQuote(At(message, r[1] - 1))
               /\ \A i \in r[1]..(r[2] - 1) : ~IsQuote(At(message, i))
               /\ IsQuote(At(message, r[2]))}
  IN  IF ms = {} THEN <<-1, -1>>
      ELSE CHOOSE r \in ms : \A q \in ms : r[1] <= q[1]

\* _extract_task_info letting the first separator that occurs in the message
\* decide, also when it leaves an empty title
_extract_task_info_first_present(message, intent) ==
  LET present == {k \in 1..Len(Separators) : Contains(message, Separators[k])}
  IN
  IF intent = "add_task" /\ present # {}
    THEN CleanTitle(AfterFirst(message, Separators[Min(present)]))
  ELSE IF intent \in {"delete_task", "complete_task"} /\ NumberMatch(message)[1] # -1
    THEN Slice(message, NumberMatch(message)[1], NumberMatch(message)[2])
  ELSE IF intent \in {"delete_task", "complete_task"} /\ QuoteMatch(message)[1] # -1
    THEN Slice(message, QuoteMatch(message)[1], QuoteMatch(message)[2])
  ELSE Strip(message)

\* _extract_task_info(message, intent)
_extract_task_info(message, intent) ==
  IF intent = "add_task" /\ TitleLoop(message, 1).found
    THEN TitleLoop(message, 1).title
  ELSE IF intent \in {"delete_task", "complete_task"} /\ NumberMatch(message)[1] # -1
    THEN Slice(message, NumberMatch(message)[1], NumberMatch(message)[2])
  ELSE IF intent \in {"delete_task", "complete_task"} /\ QuoteMatch(message)[1] # -1
    THEN Slice(message, QuoteMatch(message)[1], QuoteMatch(message)[2])
  ELSE Strip(message)

(* ------------------------------ task store ----------------------------- *)
\* the value None where a text is expected
NoneV == <<"<None>">>

\* primary key of the n-th row ever inserted
IdOf(n) == <<CHOOSE d \in Digits : d = ToString(n)>>

\* a row of the task table
Task(id, title, description, completed, user_id) ==
  [id |-> id, title |-> title, description |-> description,
   completed |-> completed, user_id |-> user_id]

\* results of the tools
ResNone      == [kind |-> "None", rows |-> <<>>, who |-> <<>>]
ResBool(b)   == [kind |-> IF b THEN "True" ELSE "False", rows |-> <<>>, who |-> <<>>]
ResTask(t)   == [kind |-> "dict", rows |-> <<t>>, who |-> <<>>]
ResList(rs)  == [kind |-> "list", rows |-> rs, who |-> <<>>]
ResUser(u, e) == [kind |-> "user", rows |-> <<>>, who |-> <<u, e>>]

\* outcome of a call that raised: nothing is committed
Raised(db) == [raised |-> TRUE, res |-> ResNone, db |-> db]
Returned(res, db) == [raised |-> FALSE, res |-> res, db |-> db]

\* OwnRows without the ownership condition
OwnRows_any_user(db, user_id, task_id) ==
  {i \in 1..Len(db.tasks) : db.tasks[i].id = task_id}

\* offsets of the rows select(Task).where(Task.id == task_id,
\* Task.user_id == user_id) yields
OwnRows(db, user_id, task_id) ==
  {i \in 1..Len(db.tasks) : db.tasks[i].id = task_id /\ db.tasks[i].user_id = user_id}

\* add_task returning the new row without committing it
add_task_uncommitted(db, dbok, user_id, title, description) ==
  IF ~dbok THEN Raised(db)
  ELSE Returned(ResTask(Task(IdOf(db.nextId), title, description, FALSE, user_id)), db)

\* TaskTools.add_task; dbok is FALSE when the commit raises
add_task(db, dbok, user_id, title, description) ==
  IF ~dbok THEN Raised(db)
  ELSE LET task == Task(IdOf(db.nextId), title, description, FALSE, user_id)
       IN  Returned(ResTask(task),
                    [tasks |-> Append(db.tasks, task), nextId |-> db.nextId + 1])

\* TaskTools.list_tasks; limit = 0 stands for a falsy limit
list_tasks(db, dbok, user_id, status, limit) ==
  IF ~dbok THEN Raised(db)
  ELSE LET rows == SelectSeq(db.tasks, LAMBDA t :
                     /\ t.user_id = user_id
                     /\ (status = <<"completed">> => t.completed)
                     /\ (status = <<"pending">> => ~t.completed))
       IN  Returned(ResList(IF limit # 0 THEN Slice(rows, 0, limit) ELSE rows), db)

\* TaskTools.update_task; NoneV for a field that is not supplied
update_task(db, dbok, user_id, task_id, title, description, completed) ==
  IF ~dbok THEN Raised(db)
  ELSE IF OwnRows(db, user_id, task_id) = {} THEN Returned(ResNone, db)
  ELSE LET i == Min(OwnRows(db, user_id, task_id))
           old == db.tasks[i]
           new == [old EXCEPT
                     !.title = IF title # NoneV THEN title ELSE @,
                     !.description = IF description # NoneV THEN description ELSE @,
                     !.completed = IF completed # NoneV THEN completed = <<"true">> ELSE @]
       IN  Returned(ResTask(new), [db EXCEPT !.tasks[i] = new])

\* TaskTools.complete_task
complete_task(db, dbok, user_id, task_id) ==
  IF ~dbok THEN Raised(db)
  ELSE IF OwnRows(db, user_id, task_id) = {} THEN Returned(ResNone, db)
  ELSE LET i == Min(OwnRows(db, user_id, task_id))
           new == [db.tasks[i] EXCEPT !.completed = TRUE]
       IN  Returned(ResTask(new), [db EXCEPT !.tasks[i] = new])

\* TaskTools.delete_task
delete_task(db, dbok, user_id, task_id) ==
  IF ~dbok THEN Raised(db)
  ELSE Returned(ResBool(OwnRows(db, user_id, task_id) # {}),
                [db EXCEPT !.tasks = SelectSeq(db.tasks, LAMBDA t :
                                       ~(t.id = task_id /\ t.user_id = user_id))])

\* IdentityTool.get_current_user
get_current_user(db, user_id, email) == Returned(ResUser(user_id, email), db)

(* ------------------------------ dispatchers ---------------------------- *)
\* the registry of _execute_tool_from_params
Registry == {"add_task", "list_tasks", "complete_task", "update_task",
             "delete_task", "get_current_user"}

\* _execute_tool(session, user_id, email, tool, message), the intent path
_execute_tool(db, dbok, user_id, email, tool, message) ==
  CASE tool = "add_task" -> add_task(db, dbok, user_id, message, NoneV)
    [] tool = "list_tasks" -> list_tasks(db, dbok, user_id, NoneV, 0)
    [] tool = "complete_task" -> complete_task(db, dbok, user_id, message)
    [] tool = "delete_task" -> delete_task(db, dbok, user_id, message)
    [] tool = "get_current_user" -> get_current_user(db, user_id, email)
    [] OTHER -> Raised(db)

\* params.get(key, default)
Get(pMap, key, default) == IF key \in DOMAIN pMap THEN pMap[key] ELSE default

\* a limit value as a number
LimitOf(v) == IF v = <<"1">> THEN 1 ELSE IF v = <<"2">> THEN 2 ELSE 0

\* _execute_tool_from_params taking the identity from params when present
_execute_tool_from_params_trusting(db, dbok, user_id, email, tool_name, pIsDict, pMap) ==
  LET uid == Get(pMap, "user_id", <<user_id>>)[1]
      mail == Get(pMap, "email", <<email>>)[1]
  IN
  IF tool_name \notin Registry THEN Raised(db)
  ELSE IF tool_name = "get_current_user" THEN get_current_user(db, uid, mail)
  ELSE IF ~pIsDict THEN Raised(db)
  ELSE CASE tool_name = "add_task" ->
              add_task(db, dbok, uid, Get(pMap, "title", <<>>),
                       Get(pMap, "description", <<>>))
         [] tool_name = "list_tasks" ->
              list_tasks(db, dbok, uid, Get(pMap, "status", NoneV),
                         LimitOf(Get(pMap, "limit", NoneV)))
         [] tool_name = "complete_task" ->
              complete_task(db, dbok, uid, Get(pMap, "task_id", <<>>))
         [] tool_name = "delete_task" ->
              delete_task(db, dbok, uid, Get(pMap, "task_id", <<>>))
         [] tool_name = "update_task" ->
              update_task(db, dbok, uid, Get(pMap, "task_id", <<>>),
                          Get(pMap, "title", NoneV), Get(pMap, "description", NoneV),
                          Get(pMap, "completed", NoneV))

\* _execute_tool_from_params(session, user_id, email, tool_name, params):
\* params.get raises when params is not a mapping; an unregistered name
\* raises ValueError
_execute_tool_from_params(db, dbok, user_id, email, tool_name, pIsDict, pMap) ==
  IF tool_name \notin Registry THEN Raised(db)
  ELSE IF tool_name = "get_current_user" THEN get_current_user(db, user_id, email)
  ELSE IF ~pIsDict THEN Raised(db)
  ELSE CASE tool_name = "add_task" ->
              add_task(db, dbok, user_id, Get(pMap, "title", <<>>),
                       Get(pMap, "description", <<>>))
         [] tool_name = "list_tasks" ->
              list_tasks(db, dbok, user_id, Get(pMap, "status", NoneV),
                         LimitOf(Get(pMap, "limit", NoneV)))
         [] tool_name = "complete_task" ->
              complete_task(db, dbok, user_id, Get(pMap, "task_id", <<>>))
         [] tool_name = "delete_task" ->
              delete_task(db, dbok, user_id, Get(pMap, "task_id", <<>>))
         [] tool_name = "update_task" ->
              update_task(db, dbok, user_id, Get(pMap, "task_id", <<>>),
                          Get(pMap, "title", NoneV), Get(pMap, "description", NoneV),
                          Get(pMap, "completed", NoneV))

(* --------------------------- confirmation text ------------------------- *)
\* repr of a str: quoted, newlines escaped, the quote character escaped when
\* the text holds both kinds of quote
HasSQ(c) == c = "'" \/ c = H_sq_add
HasDQ(c) == c = "\"" \/ c \in DOMAIN HeadTool \/ c \in DOMAIN BodyMap \/ c = K_x
ReprStr(s) ==
  LET sq == \E i \in 1..Len(s) : HasSQ(s[i])
      dq == \E i \in 1..Len(s) : HasDQ(s[i])
      q == IF sq /\ ~dq THEN "\"" ELSE "'"
      esc(c) == IF c = "\n" THEN "\\n"
                ELSE IF c = "\t" THEN "\\t"
                ELSE IF sq /\ dq /\ HasSQ(c) THEN "\\" \o c
                ELSE c
  IN  <<q>> \o [i \in 1..Len(s) |-> esc(s[i])] \o <<q>>

\* repr of an optional text
ReprOpt(s) == IF s = NoneV THEN <<"None">> ELSE ReprStr(s)

\* repr of the dict a tool returns for one row
ReprTask(t) ==
  <<"{", "'id': ">> \o ReprStr(t.id) \o <<", 'title': ">> \o ReprStr(t.title)
    \o <<", 'description': ">> \o ReprOpt(t.description)
    \o <<", 'due_date': None, 'completed': ", IF t.completed THEN "True" ELSE "False",
         ", 'user_id': ">> \o ReprStr(<<t.user_id>>)
    \o <<", 'created_at': '...', 'updated_at': '...'", "}">>

\* repr of the list list_tasks returns
RECURSIVE ReprRows(_)
ReprRows(rows) ==
  IF rows = <<>> THEN <<>>
  ELSE ReprTask(Head(rows)) \o (IF Len(rows) > 1 THEN <<", ">> ELSE <<>>) \o ReprRows(Tail(rows))
ReprList(rows) == <<"[">> \o ReprRows(rows) \o <<"]">>

\* the static sentences of the if / elif chain
DeletedText == <<"\n", "\n", "I've deleted the task as requested.">>
CompletedText == <<"\n", "\n", "I've marked the task as completed.">>

\* Confirmation worded after the result of the dispatch
Confirmation_by_result(tool, pMap, res) ==
  IF tool = "add_task" /\ "title" \in DOMAIN pMap
    THEN <<"\n", "\n", "I've added '">> \o pMap["title"] \o <<"' to your tasks.">>
  ELSE IF tool \in {"delete_task", "complete_task"} /\ res.kind \in {"None", "False"}
    THEN <<"\n", "\n", "I could not find that task.">>
  ELSE IF tool = "delete_task" THEN DeletedText
  ELSE IF tool = "complete_task" THEN CompletedText
  ELSE IF tool = "list_tasks"
    THEN <<"\n", "\n", "Here are your tasks: ">> \o ReprList(res.rows)
  ELSE <<>>

\* the text appended after an executed call: the if / elif chain on
\* tool_call["tool"]
Confirmation(tool, pMap, res) ==
  IF tool = "add_task" /\ "title" \in DOMAIN pMap
    THEN <<"\n", "\n", "I've added '">> \o pMap["title"] \o <<"' to your tasks.">>
  ELSE IF tool = "delete_task" THEN DeletedText
  ELSE IF tool = "complete_task" THEN CompletedText
  ELSE IF tool = "list_tasks"
    THEN <<"\n", "\n", "Here are your tasks: ">> \o ReprList(res.rows)
  ELSE <<>>

(* ------------------------------ the inputs ----------------------------- *)
Users == {"u1", "u2"}
\* the email claim of a user's token
EmailOf(u) == u \o "@x"

\* user messages, as character sequences
Msg_add_milk == <<"a", "d", "d", " ", "a", " ", "t", "a", "s", "k", " ", "t", "o", " ", "b", "u", "y", " ", "m", "i", "l", "k">>
Msg_delete_1 == <<"d", "e", "l", "e", "t", "e", " ", "1">>
Msg_delete_2 == <<"r", "e", "m", "o", "v", "e", " ", "t", "a", "s", "k", " ", "2">>
Msg_complete_2 == <<"c", "o", "m", "p", "l", "e", "t", "e", " ", "2">>
Msg_show == <<"s", "h", "o", "w">>
Msg_who == <<"w", "h", "o", " ", "a", "m", " ", "i">>
Msg_hello == <<"h", "e", "l", "l", "o">>
Messages == {Msg_add_milk, Msg_delete_1, Msg_delete_2, Msg_complete_2, Msg_show,
             Msg_who, Msg_hello}

\* words user messages are assembled from: keywords of every intent in
\* mixed case, the separators of the field extractor, quoted and plain text
Words ==
  { <<"A", "D", "D">>,
    <<"C", "r", "e", "a", "t", "e">>,
    <<"n", "e", "w", " ", "t", "a", "s", "k">>,
    <<"D", "e", "l", "e", "t", "e">>,
    <<"r", "e", "m", "o", "v", "e">>,
    <<"D", "O", "N", "E">>,
    <<"f", "i", "n", "i", "s", "h">>,
    <<"l", "i", "s", "t">>,
    <<"S", "h", "o", "w">>,
    <<"t", "a", "s", "k", "s">>,
    <<"W", "h", "o", " ", "a", "m", " ", "I">>,
    <<"m", "y", " ", "e", "m", "a", "i", "l">>,
    <<"h", "e", "l", "l", "o">>,
    <<"\"", "m", "i", "l", "k", "\"">>,
    <<"'", "a", "'">>,
    <<"t", "a", "s", "k">>,
    <<"f", "o", "r", " ", "m", "e">>,
    <<"m", "e">>,
    <<"t", "o">>,
    <<"e", "g", "g", "s">>,
    <<"7">> }

\* one word, or two words with a space between
WordMessages == Words \cup {a \o <<" ">> \o b : a, b \in Words}

\* an inline call and a fenced call
Call(h, b) == IF b = "" THEN <<"{", h, "{", "}", "}">> ELSE <<"{", h, "{", b, "}", "}">>
Fenced(content) == Fence \o <<"json", "\n">> \o content \o <<"\n">> \o Fence

\* the pieces assistant texts are assembled from
Segments ==
  { Call(H_add, B_title_a), Call(H_add, B_title_id), Call(H_delete, B_id1),
    Call(H_complete, B_id2), Call(H_update, B_upd2), Call(H_whoami, B_whoami_id),
    Fenced(Call(H_list, B_pending)), Fenced(Call(H_add, B_title_a)),
    Fenced(Call(H_unknown, "")),
    <<"Sure!", "\n">>,
    <<"{", H_add, "{", B_title_a, "}">>,
    <<"{", H_sq_add, "{", B_title_a, "}", "}">>,
    Fenced(<<"x">>),
    Fenced(<<"{", K_x, "1", "}">>) }
Prefixes == { <<>>, <<" ">> }

\* all concatenations of at most n segments
RECURSIVE SegTexts(_)
SegTexts(n) ==
  IF n = 0 THEN {<<>>}
  ELSE SegTexts(n - 1) \cup {x \o sg : x \in SegTexts(n - 1), sg \in Segments}

\* the texts the generative service may return to the scanner
Texts == {p \o x : p \in Prefixes, x \in SegTexts(MaxSegs)}

\* all texts of at most n lexemes over an opening brace, a closing brace and
\* the head of an add_task call
RECURSIVE BraceSeqs(_)
BraceSeqs(n) ==
  IF n = 0 THEN {<<>>}
  ELSE BraceSeqs(n - 1) \cup {Append(x, c) : x \in BraceSeqs(n - 1), c \in {"{", "}", H_add}}
BraceTexts == BraceSeqs(MaxBrace)

\* a small set of texts for the turns whose subject is not the scanner
FewTexts == { <<"Done.">>, <<>>, Call(H_add, B_title_id), Call(H_update, B_upd2),
              Call(H_whoami, B_whoami_id),
              <<"Sure!", "\n">> \o Fenced(Call(H_unknown, "")) }

\* task tables the program can be in when a turn starts: empty; one task of
\* each user; the same with a title of u1 that reads as an inline call
Row1(title) == Task(<<"1">>, title, NoneV, FALSE, "u1")
Row2 == Task(<<"2">>, <<"e", "g", "g", "s">>, NoneV, FALSE, "u2")
Stores ==
  { [tasks |-> <<>>, nextId |-> 1],
    [tasks |-> <<Row1(<<"m", "i", "l", "k">>), Row2>>, nextId |-> 3],
    [tasks |-> <<Row1(Call(H_add, B_title_a)), Row2>>, nextId |-> 3] }

(* ------------------------------- the state ----------------------------- *)
VARIABLES
  db,          \* the task table: [tasks, nextId]
  convs,       \* the conversation table: rows [id, user_id]
  messages,    \* the message table, in insertion order
  turn,        \* per request: position in chat_endpoint / process_message and locals;
               \* confs lists what the Rewriter appended, one entry per executed call
  dispatched   \* log of the calls handed to the tools, in order

vars == <<db, convs, messages, turn, dispatched>>

\* the requests served
Turns == {1}

NoResult == [set |-> FALSE, conversation_id |-> "", message |-> <<>>, keys |-> {}]
Apology == <<"Sorry, something went wrong while processing your request.">>
Completed == <<"Action completed successfully.">>

IdleTurn ==
  [pc |-> "idle", path_user |-> "", user_id |-> "", email |-> "",
   message_content |-> <<>>, req_conv |-> "", conversation_id |-> "",
   history |-> <<>>, intent |-> "", extracted_info |-> <<>>,
   ai_calls |-> 0, raw |-> <<>>, text |-> <<>>, org |-> <<>>, pos |-> 0,
   start_positions |-> <<>>, k |-> 0, scanned |-> FALSE, raised |-> FALSE,
   upstream |-> FALSE, confs |-> <<>>,
   result |-> NoResult, http |-> 0, body |-> <<>>]

Init ==
  /\ db \in Stores
  /\ convs = << [id |-> "c1", user_id |-> "u1"], [id |-> "c2", user_id |-> "u2"] >>
  /\ messages = << [conversation_id |-> "c1", user_id |-> "u1", role |-> "user",
                    content |-> <<"h", "i">>],
                   [conversation_id |-> "c2", user_id |-> "u2", role |-> "user",
                    content |-> <<"y", "o">>] >>
  /\ turn = [t \in Turns |-> IdleTurn]
  /\ dispatched = <<>>

\* update of the locals of request t
Set(t, r) == turn' = [turn EXCEPT ![t] = r]

(* ------------------------- chat_endpoint: entry ------------------------ *)
\* the conversation ids a request may name; "" stands for None
ConvChoices == {"", "c1", "c2", "c9"}

\* validate_chat_user_access, then the call of process_message: a path
\* user_id that differs from the token's is answered 403
Request(t, msgs, cids) ==
  /\ turn[t].pc = "idle"
  /\ \E path_user \in Users, message \in msgs, conv \in cids :
       LET r == [turn[t] EXCEPT !.path_user = path_user, !.user_id = "u1",
                                !.email = EmailOf("u1"),
                                !.message_content = message,
                                !.req_conv = conv, !.conversation_id = conv]
       IN  IF path_user # "u1"
             THEN Set(t, [r EXCEPT !.pc = "done", !.http = 403])
             ELSE Set(t, [r EXCEPT !.pc = "conv"])
  /\ UNCHANGED <<db, convs, messages, dispatched>>

(* ---------------------------- process_message -------------------------- *)
\* an await on the database or the generative service that raised: control
\* passes to the except clause
Raise(t) == Set(t, [turn[t] EXCEPT !.pc = "except", !.raised = TRUE, !.upstream = TRUE])

\* a dispatch that raised: control passes to the except clause; upstream
\* tells whether the database raised, and not the dispatcher itself
RaiseIn(t, r, dbfault) ==
  Set(t, [r EXCEPT !.pc = "except", !.raised = TRUE, !.upstream = dbfault])

\* id of the n-th conversation row the program inserts
NewConvId(n) == "n" \o ToString(n)

\* _create_or_get_conversation looking the conversation up by its id alone
CreateOrGetConversation_any_owner(t) ==
  /\ turn[t].pc = "conv"
  /\ \E dbok \in BOOLEAN :
       LET cid == turn[t].conversation_id
           known == \E i \in 1..Len(convs) : convs[i].id = cid
           new == NewConvId(Len(convs) + 1)
       IN  IF ~dbok THEN Raise(t) /\ UNCHANGED convs
           ELSE IF cid # "" /\ known
             THEN Set(t, [turn[t] EXCEPT !.pc = "save_user"]) /\ UNCHANGED convs
           ELSE /\ convs' = Append(convs, [id |-> new, user_id |-> turn[t].user_id])
                /\ Set(t, [turn[t] EXCEPT !.pc = "save_user", !.conversation_id = new])
  /\ UNCHANGED <<db, messages, dispatched>>

\* _create_or_get_conversation
CreateOrGetConversation(t) ==
  /\ turn[t].pc = "conv"
  /\ \E dbok \in BOOLEAN :
       LET cid == turn[t].conversation_id
           own == \E i \in 1..Len(convs) :
                    convs[i].id = cid /\ convs[i].user_id = turn[t].user_id
           new == NewConvId(Len(convs) + 1)
       IN  IF ~dbok THEN Raise(t) /\ UNCHANGED convs
           ELSE IF cid # "" /\ own
             THEN Set(t, [turn[t] EXCEPT !.pc = "save_user"]) /\ UNCHANGED convs
           ELSE /\ convs' = Append(convs, [id |-> new, user_id |-> turn[t].user_id])
                /\ Set(t, [turn[t] EXCEPT !.pc = "save_user", !.conversation_id = new])
  /\ UNCHANGED <<db, messages, dispatched>>

\* _save_message placing an assistant entry right after the user entry of
\* its own turn
Saved_in_turn_order(t, role, content) ==
  LET e == [conversation_id |-> turn[t].conversation_id,
            user_id |-> turn[t].user_id, role |-> role, content |-> content]
      own == {i \in 1..Len(messages) :
                /\ messages[i].conversation_id = turn[t].conversation_id
                /\ messages[i].role = "user"
                /\ messages[i].content = turn[t].message_content}
  IN  IF role = "user" \/ own = {} THEN Append(messages, e)
      ELSE SubSeq(messages, 1, Max(own)) \o <<e>>
             \o SubSeq(messages, Max(own) + 1, Len(messages))

\* _save_message
Saved(t, role, content) ==
  Append(messages, [conversation_id |-> turn[t].conversation_id,
                    user_id |-> turn[t].user_id, role |-> role, content |-> content])

\* the first _save_message of process_message: the user's message
SaveUserMessage(t) ==
  /\ turn[t].pc = "save_user"
  /\ \E dbok \in BOOLEAN :
       IF ~dbok THEN Raise(t) /\ UNCHANGED messages
       ELSE /\ messages' = Saved(t, "user", turn[t].message_content)
            /\ Set(t, [turn[t] EXCEPT !.pc = "history"])
  /\ UNCHANGED <<db, convs, dispatched>>

\* _get_conversation_history, then _detect_intent
GetHistory(t) ==
  /\ turn[t].pc = "history"
  /\ \E dbok \in BOOLEAN :
       LET hist == SelectSeq(messages, LAMBDA m :
                     m.conversation_id = turn[t].conversation_id)
           intent == _detect_intent(turn[t].message_content)
       IN  IF ~dbok THEN Raise(t)
           ELSE Set(t, [turn[t] EXCEPT !.history = hist, !.intent = intent,
                          !.pc = IF intent # "" THEN "dispatch" ELSE "chat"])
  /\ UNCHANGED <<db, convs, messages, dispatched>>

\* an entry of the dispatch log
Logged(t, path, tool, pMap, task_id, origin, out) ==
  [turn |-> t, path |-> path, tool |-> tool, pMap |-> pMap, task_id |-> task_id,
   origin |-> origin,
   user_id |-> turn[t].user_id, email |-> turn[t].email,
   raised |-> out.raised, res |-> out.res]

\* the intent path: _extract_task_info, then _execute_tool
IntentDispatch(t) ==
  /\ turn[t].pc = "dispatch"
  /\ \E dbok \in BOOLEAN :
       LET info == _extract_task_info(turn[t].message_content, turn[t].intent)
           out == _execute_tool(db, dbok, turn[t].user_id, turn[t].email,
                                turn[t].intent, info)
       IN  /\ db' = out.db
           /\ dispatched' = Append(dispatched,
                              Logged(t, "intent", turn[t].intent, EmptyMap, info, -1, out))
           /\ IF out.raised
                THEN RaiseIn(t, [turn[t] EXCEPT !.extracted_info = info], TRUE)
                ELSE Set(t, [turn[t] EXCEPT !.extracted_info = info, !.pc = "explain"])
  /\ UNCHANGED <<convs, messages>>

\* Explain handing the explanation to the scanner
Explain_scanned(t, texts) ==
  /\ turn[t].pc = "explain"
  /\ \E ok \in BOOLEAN, reply \in texts :
       IF ~ok THEN Raise(t)
       ELSE Set(t, [turn[t] EXCEPT !.ai_calls = @ + 1, !.raw = reply, !.text = reply,
                                   !.org = [i \in 1..Len(reply) |-> i],
                                   !.pos = 0, !.scanned = TRUE, !.pc = "passA"])
  /\ UNCHANGED <<db, convs, messages, dispatched>>

\* the intent path: cohere_client.chat(message=explain_prompt)
Explain(t, texts) ==
  /\ turn[t].pc = "explain"
  /\ \E ok \in BOOLEAN, reply \in texts :
       IF ~ok THEN Raise(t)
       ELSE Set(t, [turn[t] EXCEPT !.ai_calls = @ + 1, !.raw = reply, !.text = reply,
                                   !.pc = "save_asst"])
  /\ UNCHANGED <<db, convs, messages, dispatched>>

\* the free-form path: cohere_client.chat(message, chat_history), then the
\* entry of _process_ai_response_for_tools
Chat(t, texts) ==
  /\ turn[t].pc = "chat"
  /\ \E ok \in BOOLEAN, reply \in texts :
       IF ~ok THEN Raise(t)
       ELSE Set(t, [turn[t] EXCEPT !.ai_calls = @ + 1, !.raw = reply, !.text = reply,
                                   !.org = [i \in 1..Len(reply) |-> i],
                                   !.pos = 0, !.scanned = TRUE, !.pc = "passA"])
  /\ UNCHANGED <<db, convs, messages, dispatched>>

(* -------------------- _process_ai_response_for_tools ------------------- *)
\* FencedBlock taking the last complete block at or after pos
FencedBlock_from_end(pr, pos) ==
  LET starts == {i \in pos..(Len(pr) - 3) :
                   /\ Slice(pr, i, i + 3) = Fence
                   /\ Find(pr, <<"\n">>, i) # -1
                   /\ Find(pr, Fence, Find(pr, <<"\n">>, i) + 1) # -1}
      start_pos == IF starts = {} THEN -1 ELSE Max(starts)
      opening_end == IF start_pos = -1 THEN -1 ELSE Find(pr, <<"\n">>, start_pos)
      end_pos == IF opening_end = -1 THEN -1 ELSE Find(pr, Fence, opening_end + 1)
  IN  [found |-> pos < Len(pr) /\ end_pos # -1,
       start_pos |-> start_pos, opening_end |-> opening_end, end_pos |-> end_pos]

\* Pass A: the fenced block the loop looks at from offset pos; found is FALSE
\* where the loop breaks
FencedBlock(pr, pos) ==
  LET start_pos == Find(pr, Fence, pos)
      opening_end == IF start_pos = -1 THEN -1 ELSE Find(pr, <<"\n">>, start_pos)
      end_pos == IF opening_end = -1 THEN -1 ELSE Find(pr, Fence, opening_end + 1)
  IN  [found |-> pos < Len(pr) /\ end_pos # -1,
       start_pos |-> start_pos, opening_end |-> opening_end, end_pos |-> end_pos]

\* offset of the first character of pr[a:b].strip(), or b when it is empty
FirstNonSpace(pr, a, b) ==
  LET non == {i \in a..(b - 1) : ~IsSpace(At(pr, i))}
  IN  IF non = {} THEN b ELSE Min(non)

\* PassAKeep leaving the block in place
PassAKeep_block_left(pr, start_pos, end_pos) == StripKeep(pr)

\* offsets of pr that survive
\* processed_response.replace(full_block, "").strip() in Pass A
PassAKeep(pr, start_pos, end_pos) ==
  LET full_block == Slice(pr, start_pos, end_pos + 3)
      keep == ReplaceKeep(pr, full_block)
      left == Pick([i \in 1..Len(pr) |-> i - 1], keep)
  IN  {left[i + 1] : i \in StripKeep(Pick(pr, keep))}

\* offsets of pr that survive
\* (processed_response[:start_pos] + processed_response[end_pos:]).strip()
\* in Pass B
PassBKeep(pr, start_pos, end_pos) ==
  LET keep == {i \in 0..(Len(pr) - 1) : i < start_pos \/ i >= end_pos}
      left == Pick([i \in 1..Len(pr) |-> i - 1], keep)
  IN  {left[i + 1] : i \in StripKeep(Pick(pr, keep))}

\* one iteration of the while loop of Pass A that finds a fenced block
PassAIter(t) ==
  /\ turn[t].pc = "passA"
  /\ FencedBlock(turn[t].text, turn[t].pos).found
  /\ \E dbok \in BOOLEAN :
       LET pr == turn[t].text
           blk == FencedBlock(pr, turn[t].pos)
           parsed == JsonLoads(Strip(Slice(pr, blk.opening_end + 1, blk.end_pos)))
           out == _execute_tool_from_params(db, dbok, turn[t].user_id, turn[t].email,
                                            parsed.tool, parsed.pIsDict, parsed.pMap)
           ok == _execute_tool_from_params(db, TRUE, turn[t].user_id, turn[t].email,
                                           parsed.tool, parsed.pIsDict, parsed.pMap)
           origin == turn[t].org[FirstNonSpace(pr, blk.opening_end + 1, blk.end_pos) + 1]
           keep == PassAKeep(pr, blk.start_pos, blk.end_pos)
           conf == Confirmation(parsed.tool, parsed.pMap, out.res)
       IN  IF ~(parsed.ok /\ parsed.isCall)
             THEN /\ Set(t, [turn[t] EXCEPT !.pos = blk.end_pos + 3])
                  /\ UNCHANGED <<db, dispatched>>
             ELSE /\ db' = out.db
                  /\ dispatched' = Append(dispatched,
                                     Logged(t, "A", parsed.tool, parsed.pMap,
                                            Get(parsed.pMap, "task_id", <<>>), origin, out))
                  /\ IF out.raised
                       THEN RaiseIn(t, turn[t], ~ok.raised)
                       ELSE Set(t, [turn[t] EXCEPT
                                      !.text = Pick(pr, keep) \o conf,
                                      !.org = Pick(turn[t].org, keep) \o Zeros(Len(conf)),
                                      !.confs = Append(@, conf),
                                      !.pos = 0])
  /\ UNCHANGED <<convs, messages>>

\* the end of Pass A (the loop condition fails or a find returns -1), then
\* re.finditer over the text Pass A left
PassADone(t) ==
  /\ turn[t].pc = "passA"
  /\ ~FencedBlock(turn[t].text, turn[t].pos).found
  /\ Set(t, [turn[t] EXCEPT !.start_positions = StartPositions(turn[t].text),
                            !.k = Len(StartPositions(turn[t].text)),
                            !.pc = "passB"])
  /\ UNCHANGED <<db, convs, messages, dispatched>>

\* one iteration of the for loop of Pass B, over reversed(start_positions)
PassBIter(t) ==
  /\ turn[t].pc = "passB"
  /\ turn[t].k > 0
  /\ \E dbok \in BOOLEAN :
       LET pr == turn[t].text
           start_pos == turn[t].start_positions[turn[t].k]
           ex == _extract_json_object(pr, start_pos)
           parsed == JsonLoads(ex.obj)
           out == _execute_tool_from_params(db, dbok, turn[t].user_id, turn[t].email,
                                            parsed.tool, parsed.pIsDict, parsed.pMap)
           ok == _execute_tool_from_params(db, TRUE, turn[t].user_id, turn[t].email,
                                           parsed.tool, parsed.pIsDict, parsed.pMap)
           keep == PassBKeep(pr, start_pos, ex.end)
           conf == Confirmation(parsed.tool, parsed.pMap, out.res)
       IN  IF ~(ex.found /\ parsed.ok /\ parsed.isCall)
             THEN /\ Set(t, [turn[t] EXCEPT !.k = @ - 1])
                  /\ UNCHANGED <<db, dispatched>>
             ELSE /\ db' = out.db
                  /\ dispatched' = Append(dispatched,
                                     Logged(t, "B", parsed.tool, parsed.pMap,
                                            Get(parsed.pMap, "task_id", <<>>),
                                            turn[t].org[ex.from + 1], out))
                  /\ IF out.raised
                       THEN RaiseIn(t, turn[t], ~ok.raised)
                       ELSE Set(t, [turn[t] EXCEPT
                                      !.text = Pick(pr, keep) \o conf,
                                      !.org = Pick(turn[t].org, keep) \o Zeros(Len(conf)),
                                      !.confs = Append(@, conf),
                                      !.k = @ - 1])
  /\ UNCHANGED <<convs, messages>>

\* ScanResult testing for the empty text only
ScanResult_no_strip(pr) == IF pr # <<>> THEN pr ELSE Completed

\* the value _process_ai_response_for_tools returns
ScanResult(pr) == IF Strip(pr) # <<>> THEN pr ELSE Completed

\* the return of _process_ai_response_for_tools
ScanReturn(t) ==
  /\ turn[t].pc = "passB"
  /\ turn[t].k = 0
  /\ Set(t, [turn[t] EXCEPT !.text = ScanResult(turn[t].text), !.pc = "save_asst"])
  /\ UNCHANGED <<db, convs, messages, dispatched>>

(* ------------------- process_message: persist, return ------------------ *)
\* the second _save_message, then the return of the result dictionary
SaveAssistantMessage(t) ==
  /\ turn[t].pc = "save_asst"
  /\ \E dbok \in BOOLEAN :
       IF ~dbok THEN Raise(t) /\ UNCHANGED messages
       ELSE /\ messages' = Saved(t, "assistant", turn[t].text)
            /\ Set(t, [turn[t] EXCEPT !.pc = "returned",
                         !.result = [set |-> TRUE,
                                     conversation_id |-> turn[t].conversation_id,
                                     message |-> turn[t].text,
                                     keys |-> {"conversation_id", "message",
                                               "tool_result", "timestamp"}]])
  /\ UNCHANGED <<db, convs, dispatched>>

\* ExceptResult carrying the text of the exception
ExceptResult_detail(conversation_id) ==
  [set |-> TRUE,
   conversation_id |-> IF conversation_id # "" THEN conversation_id ELSE "uuid4",
   message |-> <<"Unknown tool: frobnicate">>,
   keys |-> {"conversation_id", "message", "tool_result", "timestamp"}]

\* the dictionary the except clause returns
ExceptResult(conversation_id) ==
  [set |-> TRUE,
   conversation_id |-> IF conversation_id # "" THEN conversation_id ELSE "uuid4",
   message |-> Apology,
   keys |-> {"conversation_id", "message", "tool_result", "timestamp"}]

\* except Exception: log, return the apology
ExceptHandler(t) ==
  /\ turn[t].pc = "except"
  /\ Set(t, [turn[t] EXCEPT !.pc = "returned",
                            !.result = ExceptResult(turn[t].conversation_id)])
  /\ UNCHANGED <<db, convs, messages, dispatched>>

(* ------------------------ chat_endpoint: response ---------------------- *)
\* the keys chat_endpoint reads from the result of process_message
ResponseKeys == {"conversation_id", "message", "task_operations", "timestamp"}

\* status and message of the HTTP response: reading a key the result does not
\* hold raises KeyError, which the endpoint turns into a 500
ResponseFor(result) ==
  IF ResponseKeys \subseteq result.keys
    THEN [http |-> 200, body |-> result.message]
    ELSE [http |-> 500, body |-> <<"An error occurred while processing your request">>]

\* chat_endpoint after process_message has returned
Respond(t) ==
  /\ turn[t].pc = "returned"
  /\ Set(t, [turn[t] EXCEPT !.pc = "done", !.http = ResponseFor(turn[t].result).http,
                            !.body = ResponseFor(turn[t].result).body])
  /\ UNCHANGED <<db, convs, messages, dispatched>>

(* --------------------------- specifications ---------------------------- *)
\* one request of any kind, the generative service answering from FewTexts
Next ==
  \E t \in Turns :
    \/ Request(t, Messages, ConvChoices)
    \/ CreateOrGetConversation(t)
    \/ SaveUserMessage(t)
    \/ GetHistory(t)
    \/ IntentDispatch(t)
    \/ Explain(t, FewTexts)
    \/ Chat(t, FewTexts)
    \/ PassAIter(t)
    \/ PassADone(t)
    \/ PassBIter(t)
    \/ ScanReturn(t)
    \/ SaveAssistantMessage(t)
    \/ ExceptHandler(t)
    \/ Respond(t)

Spec == Init /\ [][Next]_vars

\* one free-form request, the generative service answering from Texts
ScanNext ==
  \E t \in Turns :
    \/ Request(t, {Msg_hello}, {""})
    \/ CreateOrGetConversation(t)
    \/ SaveUserMessage(t)
    \/ GetHistory(t)
    \/ Chat(t, Texts)
    \/ PassAIter(t)
    \/ PassADone(t)
    \/ PassBIter(t)
    \/ ScanReturn(t)
    \/ SaveAssistantMessage(t)
    \/ ExceptHandler(t)
    \/ Respond(t)

ScanSpec == Init /\ [][ScanNext]_vars

\* one request whose message is assembled from Words
IntentNext ==
  \E t \in Turns :
    \/ Request(t, WordMessages, {""})
    \/ CreateOrGetConversation(t)
    \/ SaveUserMessage(t)
    \/ GetHistory(t)
    \/ IntentDispatch(t)
    \/ Explain(t, FewTexts)
    \/ Chat(t, FewTexts)
    \/ PassAIter(t)
    \/ PassADone(t)
    \/ PassBIter(t)
    \/ ScanReturn(t)
    \/ SaveAssistantMessage(t)
    \/ ExceptHandler(t)
    \/ Respond(t)

IntentSpec == Init /\ [][IntentNext]_vars

\* two requests in flight at once: each await of process_message is a point
\* where the other request may run
ConcTurns == {1, 2}

\* the texts the generative service returns to the two requests
ConcTexts == { <<"Done.">>, Fenced(Call(H_add, B_title_a)) \o Call(H_delete, B_id1) }

ConcInit ==
  /\ db \in Stores
  /\ convs = << [id |-> "c1", user_id |-> "u1"], [id |-> "c2", user_id |-> "u2"] >>
  /\ messages = << [conversation_id |-> "c1", user_id |-> "u1", role |-> "user",
                    content |-> <<"h", "i">>],
                   [conversation_id |-> "c2", user_id |-> "u2", role |-> "user",
                    content |-> <<"y", "o">>] >>
  /\ turn = [t \in ConcTurns |-> IdleTurn]
  /\ dispatched = <<>>

ConcNext ==
  \E t \in ConcTurns :
    \/ Request(t, {Msg_hello, Msg_show}, {"c1"})
    \/ CreateOrGetConversation(t)
    \/ SaveUserMessage(t)
    \/ GetHistory(t)
    \/ IntentDispatch(t)
    \/ Explain(t, ConcTexts)
    \/ Chat(t, ConcTexts)
    \/ PassAIter(t)
    \/ PassADone(t)
    \/ PassBIter(t)
    \/ ScanReturn(t)
    \/ SaveAssistantMessage(t)
    \/ ExceptHandler(t)
    \/ Respond(t)

ConcSpec == ConcInit /\ [][ConcNext]_vars

\* one free-form request, the generative service answering from BraceTexts,
\* which hold no fence
BraceNext ==
  \E t \in Turns :
    \/ Request(t, {Msg_hello}, {""})
    \/ CreateOrGetConversation(t)
    \/ SaveUserMessage(t)
    \/ GetHistory(t)
    \/ Chat(t, BraceTexts)
    \/ PassADone(t)
    \/ PassBIter(t)
    \/ ScanReturn(t)
    \/ SaveAssistantMessage(t)
    \/ ExceptHandler(t)
    \/ Respond(t)

BraceSpec == Init /\ [][BraceNext]_vars

(* ------------------------------ properties ----------------------------- *)
Last(q) == q[Len(q)]
Range(q) == {q[i] : i \in 1..Len(q)}

\* the scanner has returned for request t
ScanDone(t) == turn[t].scanned /\ turn[t].pc = "save_asst"

\* offsets [from, to) of the object _extract_json_object finds at offset i
SpanAt(raw, i) == (_extract_json_object(raw, i).from)..(_extract_json_object(raw, i).end - 1)

\* the object that starts at offset i of raw decodes to a call
CallAt(raw, i) ==
  /\ At(raw, i) = "{"
  /\ _extract_json_object(raw, i).found
  /\ JsonLoads(_extract_json_object(raw, i).obj).isCall

\* raw holds a fenced block whose inner text decodes to a call
HasFencedCall(raw) ==
  \E a, b \in 0..(Len(raw) - 3) :
    /\ a + 3 <= b
    /\ Slice(raw, a, a + 3) = Fence /\ Slice(raw, b, b + 3) = Fence
    /\ \E n \in (a + 3)..(b - 1) :
         At(raw, n) = "\n" /\ JsonLoads(Strip(Slice(raw, n + 1, b))).isCall

\* raw holds an object that decodes to a call
HasInlineCall(raw) == \E i \in 0..(Len(raw) - 1) : CallAt(raw, i)

NoCall(raw) == ~HasFencedCall(raw) /\ ~HasInlineCall(raw)

\* C1: when the scanner dispatches a fenced call whose tool name is outside
\* the registry, and neither the database nor the generative service fails,
\* the turn returns rewritten text without the call and not the apology.
C1_UnknownToolStillRewritten ==
  \A t \in Turns : \A i \in 1..Len(dispatched) :
    (/\ turn[t].pc = "returned" /\ ~turn[t].upstream
     /\ dispatched[i].turn = t /\ dispatched[i].path = "A"
     /\ dispatched[i].tool \notin Registry)
      => /\ turn[t].result.message # Apology
         /\ dispatched[i].origin \notin Range(turn[t].org)

\* raw holds exactly two inline calls, both of registered tools, and no fence
TwoInlineCalls(raw) ==
  LET sp == StartPositions(raw)
  IN  /\ ~Contains(raw, Fence)
      /\ Len(sp) = 2
      /\ \A k \in 1..2 : CallAt(raw, sp[k])
                          /\ JsonLoads(_extract_json_object(raw, sp[k]).obj).tool \in Registry
      /\ _extract_json_object(raw, sp[1]).end <= sp[2]

\* C2: for a text holding two well-formed inline calls of registered tools,
\* whatever surrounds them, Pass B dispatches both and the returned text
\* holds no character of either call.
C2_BothInlineCallsRemoved ==
  \A t \in Turns :
    (ScanDone(t) /\ TwoInlineCalls(turn[t].raw))
      => /\ Len(dispatched) = 2
         /\ \A k \in 1..2 :
              LET start == StartPositions(turn[t].raw)[k]
              IN  /\ \E i \in 1..2 : dispatched[i].origin = start + 1
                  /\ \A o \in SpanAt(turn[t].raw, start) : o + 1 \notin Range(turn[t].org)

\* C3 as stated: for a text without a well-formed call, empty and
\* whitespace-only text included, the scanner dispatches nothing and returns
\* the text unchanged up to trimming.
C3_NoCallUnchanged ==
  \A t \in Turns :
    (ScanDone(t) /\ NoCall(turn[t].raw))
      => /\ dispatched = <<>>
         /\ Strip(turn[t].text) = Strip(turn[t].raw)

\* C3 amended: for a text without a well-formed call the scanner dispatches
\* nothing; it returns the text unchanged up to trimming when the text holds a
\* non-whitespace character, and the fixed sentence "Action completed
\* successfully." when the text is empty or whitespace only.
C3_NoCallUnchangedOrCompleted ==
  \A t \in Turns :
    (ScanDone(t) /\ NoCall(turn[t].raw))
      => /\ dispatched = <<>>
         /\ IF Strip(turn[t].raw) # <<>>
              THEN Strip(turn[t].text) = Strip(turn[t].raw)
              ELSE turn[t].text = Completed

\* C3 witness: the scanner returned for a text without a call that holds a
\* fence and an inline candidate
C3_Witness ==
  \E t \in Turns :
    /\ ScanDone(t) /\ NoCall(turn[t].raw)
    /\ Contains(turn[t].raw, Fence) /\ PatternMatches(turn[t].raw) # {}

BuyMilk == <<"b", "u", "y", " ", "m", "i", "l", "k">>
ToBuyMilk == <<"t", "o", " ", "b", "u", "y", " ", "m", "i", "l", "k">>

\* the intent path has dispatched for the message "add a task to buy milk"
MilkDispatched(t) == turn[t].message_content = Msg_add_milk /\ turn[t].pc = "explain"

\* C4 as stated: for "add a task to buy milk" the intent is add_task, the
\* extracted field is "buy milk" and the task created is titled "buy milk".
C4_BuyMilk ==
  \A t \in Turns :
    MilkDispatched(t)
      => /\ turn[t].intent = "add_task"
         /\ turn[t].extracted_info = BuyMilk
         /\ Last(db.tasks).title = BuyMilk

\* C4 amended: for "add a task to buy milk" the intent is add_task, the
\* extracted field is "to buy milk" (the text after the separator "task") and
\* the dispatch creates a task of the caller titled "to buy milk".
C4_ToBuyMilk ==
  \A t \in Turns :
    MilkDispatched(t)
      => /\ turn[t].intent = "add_task"
         /\ turn[t].extracted_info = ToBuyMilk
         /\ Last(db.tasks).title = ToBuyMilk
         /\ Last(db.tasks).user_id = turn[t].user_id
         /\ Last(dispatched).res = ResTask(Last(db.tasks))

\* C4 witness: the dispatch for "add a task to buy milk" has returned
C4_Witness == \E t \in Turns : MilkDispatched(t)

\* prose followed by one fenced list_tasks call with status pending
C5_Text == <<"Sure!", "\n">> \o Fenced(Call(H_list, B_pending))

\* C5: for prose followed by one fenced list_tasks call with status pending,
\* whatever the task table holds, the scanner dispatches exactly once
\* (list_tasks, status pending), the returned text holds no fence and is not
\* empty.
C5_OneListDispatch ==
  \A t \in Turns :
    (ScanDone(t) /\ turn[t].raw = C5_Text)
      => /\ Len(dispatched) = 1
         /\ dispatched[1].tool = "list_tasks"
         /\ Get(dispatched[1].pMap, "status", NoneV) = <<"pending">>
         /\ ~Contains(turn[t].text, Fence)
         /\ turn[t].text # <<>>

\* C6: within one run of the scanner no call of the generative service's
\* text is dispatched twice, in Pass A and Pass B together: the dispatches
\* of one request that come from that text start at pairwise different
\* characters of it.
C6_AtMostOnce ==
  \A i, j \in 1..Len(dispatched) :
    (i # j /\ dispatched[i].turn = dispatched[j].turn /\ dispatched[i].origin > 0)
      => dispatched[i].origin # dispatched[j].origin

\* C6 witness: the scanner returned after dispatching a call in Pass A and
\* another in Pass B
C6_Witness ==
  \E t \in Turns : \E i, j \in 1..Len(dispatched) :
    /\ ScanDone(t)
    /\ dispatched[i].path = "A" /\ dispatched[i].origin > 0
    /\ dispatched[j].path = "B" /\ dispatched[j].origin > 0

\* C7: when a step of process_message raised, process_message returns (no
\* exception reaches the caller) and the returned message is exactly the
\* fixed apology.
C7_ApologyOnFailure ==
  \A t \in Turns :
    turn[t].raised
      => /\ turn[t].pc \in {"except", "returned", "done"}
         /\ turn[t].pc # "except"
              => turn[t].result.set /\ turn[t].result.message = Apology

\* C7 witness: process_message returned after a failure that followed a
\* dispatch and a rewrite of the text
C7_Witness ==
  \E t \in Turns :
    /\ turn[t].raised /\ turn[t].pc = "returned"
    /\ dispatched # <<>> /\ turn[t].text # turn[t].raw

\* C8: for a request whose path user_id matches the token, chat_endpoint
\* answers with a ChatResponse carrying the message process_message
\* returned, never with a 500.
C8_ResponseFromResult ==
  \A t \in Turns :
    (turn[t].pc = "done" /\ turn[t].path_user = turn[t].user_id)
      => turn[t].http = 200 /\ turn[t].body = turn[t].result.message

\* the request and the entry of a dispatch made in this step
Dispatching == Len(dispatched') = Len(dispatched) + 1

\* C9: complete_task, update_task and delete_task given the id of a task the
\* caller does not own (another user's or nobody's) return None, None and
\* False and leave the table unchanged; list_tasks returns only rows of the
\* caller.
C9_Isolation ==
  [][Dispatching =>
       LET d == Last(dispatched')
           own == \E i \in 1..Len(db.tasks) :
                    db.tasks[i].id = d.task_id /\ db.tasks[i].user_id = d.user_id
       IN  /\ (d.tool \in {"complete_task", "update_task"} /\ ~d.raised /\ ~own)
                => d.res = ResNone /\ db' = db
           /\ (d.tool = "delete_task" /\ ~d.raised /\ ~own)
                => d.res = ResBool(FALSE) /\ db' = db
           /\ (d.tool = "list_tasks" /\ ~d.raised)
                => \A i \in 1..Len(d.res.rows) : d.res.rows[i].user_id = d.user_id]_vars

\* C9 witness: a dispatch named a task of another user, returned the
\* not-found result and that task is still in the table
C9_Witness ==
  \E k \in 1..Len(dispatched) : \E i \in 1..Len(db.tasks) :
    /\ dispatched[k].tool \in {"complete_task", "update_task", "delete_task"}
    /\ ~dispatched[k].raised
    /\ db.tasks[i].id = dispatched[k].task_id
    /\ db.tasks[i].user_id # dispatched[k].user_id
    /\ dispatched[k].res \in {ResNone, ResBool(FALSE)}

\* params without the identity fields
NoIdentity(pMap) == [k \in DOMAIN pMap \ {"user_id", "email"} |-> pMap[k]]

\* C10: every dispatch acts for the (user_id, email) pair of the session:
\* the rows it creates, changes, deletes or returns belong to that user,
\* get_current_user returns that pair, and user_id / email fields inside
\* scanned params change neither the result nor the effect.
C10_SessionIdentity ==
  [][Dispatching =>
       LET d == Last(dispatched')
           t == d.turn
       IN  /\ d.user_id = turn[t].user_id /\ d.email = turn[t].email
           /\ turn[t].user_id = "u1" /\ turn[t].email = EmailOf("u1")
           /\ \A r \in (Range(db'.tasks) \ Range(db.tasks))
                        \cup (Range(db.tasks) \ Range(db'.tasks))
                        \cup Range(d.res.rows) : r.user_id = d.user_id
           /\ d.res.kind = "user" => d.res.who = <<d.user_id, d.email>>
           /\ (d.path # "intent" /\ ~d.raised)
                => LET o == _execute_tool_from_params(db, TRUE, d.user_id, d.email,
                                                      d.tool, TRUE, NoIdentity(d.pMap))
                   IN  o.res = d.res /\ o.db = db']_vars

\* C10 witness: a scanned call whose params name another user was dispatched
C10_Witness ==
  \E k \in 1..Len(dispatched) :
    /\ ~dispatched[k].raised
    /\ "user_id" \in DOMAIN dispatched[k].pMap
    /\ dispatched[k].pMap["user_id"] # <<dispatched[k].user_id>>

\* a keyword of the set words occurs in message at some offset, compared
\* character by character without regard to case
Hit(message, words) ==
  \E w \in words : \E i \in 0..(Len(message) - Len(w)) :
    \A j \in 1..Len(w) :
      \/ message[i + j] = w[j]
      \/ message[i + j] \in DOMAIN UpperToLower /\ UpperToLower[message[i + j]] = w[j]

\* the intents in priority order with their keyword sets
IntentOrder ==
  << <<"add_task", {KW_add, KW_create, KW_new_task}>>,
     <<"delete_task", {KW_delete, KW_remove}>>,
     <<"complete_task", {KW_complete, KW_done, KW_finish}>>,
     <<"list_tasks", {KW_list, KW_show, KW_tasks}>>,
     <<"get_current_user", {KW_who_am_i, KW_my_email}>> >>

\* the intents whose keywords occur in message
HitIntents(message) == {k \in 1..Len(IntentOrder) : Hit(message, IntentOrder[k][2])}

\* request t is classified in this step
Classifying(t) == turn[t].pc = "history" /\ turn'[t].pc \in {"dispatch", "chat"}

\* C11: the intent a turn is classified with is one of the five intents or
\* None and is decided by the message alone: it is the first intent in the
\* order add > delete > complete > list > identity that has a keyword
\* occurring in the message as a substring, case ignored, and None when no
\* intent has one.
C11_IntentPriority ==
  [][\A t \in Turns :
       Classifying(t) =>
         LET hits == HitIntents(turn[t].message_content)
         IN  /\ turn'[t].intent \in {IntentOrder[k][1] : k \in 1..Len(IntentOrder)} \cup {""}
             /\ turn'[t].intent = IF hits = {} THEN "" ELSE IntentOrder[Min(hits)][1]]_vars

\* C11 witness: a message holding keywords of several intents, one of them
\* not in lower case, was classified with an intent that is not add_task
C11_Witness ==
  \E t \in Turns :
    /\ turn[t].pc = "dispatch"
    /\ Cardinality(HitIntents(turn[t].message_content)) >= 2
    /\ Lower(turn[t].message_content) # turn[t].message_content
    /\ turn[t].intent # "add_task"

\* the lexemes a confirmation sentence opens with
SentenceHeads == {"I've added '", "I've deleted the task as requested.",
                  "I've marked the task as completed.", "Here are your tasks: "}

\* the number of confirmation sentences in the text c
Sentences(c) == Cardinality({i \in 1..Len(c) : c[i] \in SentenceHeads})

\* the scanner executes a call of request t in this step
Executing(t) == Len(turn'[t].confs) = Len(turn[t].confs) + 1

\* C12: for each call the scanner executes, whichever registered tool it
\* names and whatever its params, what the Rewriter appends is exactly one
\* confirmation sentence.
C12_OneConfirmation ==
  [][\A t \in Turns :
       Executing(t) =>
         /\ Last(dispatched').tool \in Registry
         /\ Sentences(Last(turn'[t].confs)) = 1]_vars

\* C13: when a scanned complete_task or delete_task call names a task that is
\* absent or not the caller's (the dispatch returns None / False), the
\* Rewriter appends the same sentence as after a successful dispatch, the
\* text ends with it, and the scanner goes on.
C13_SuccessTextOnNotFound ==
  [][\A t \in Turns :
       LET d == Last(dispatched')
       IN  (/\ Dispatching /\ d.turn = t /\ d.path \in {"A", "B"}
            /\ d.tool \in {"complete_task", "delete_task"}
            /\ ~d.raised /\ d.res \in {ResNone, ResBool(FALSE)})
             => /\ Executing(t)
                /\ Last(turn'[t].confs) =
                     IF d.tool = "delete_task" THEN DeletedText ELSE CompletedText
                /\ Slice(turn'[t].text, Len(turn'[t].text) - 3, Len(turn'[t].text))
                     = Last(turn'[t].confs)
                /\ db' = db
                /\ turn'[t].pc \in {"passA", "passB"} /\ ~turn'[t].raised]_vars

\* C13 witness: the scanner returned after a complete_task or delete_task
\* call that found no task of the caller, and the text it returned holds the
\* success sentence
C13_Witness ==
  \E t \in Turns : \E i \in 1..Len(dispatched) :
    /\ ScanDone(t)
    /\ dispatched[i].tool \in {"complete_task", "delete_task"}
    /\ dispatched[i].res \in {ResNone, ResBool(FALSE)} /\ ~dispatched[i].raised
    /\ \E j \in 1..Len(turn[t].text) :
         turn[t].text[j] \in {DeletedText[3], CompletedText[3]}

\* a call after the i-th of the log that returned and names the task id
TouchedLater(i, id, tools) ==
  \E j \in (i + 1)..Len(dispatched) :
    /\ ~dispatched[j].raised
    /\ dispatched[j].tool \in tools /\ dispatched[j].task_id = id

\* C14: the effect of every call that returned stays in the task table
\* whatever follows it, a failed later dispatch and the FAILED end of the
\* turn included: a task added is still there, a task completed is still
\* completed, a task deleted is still gone, unless a later call that
\* returned names that very task.
C14_PriorEffectsStay ==
  \A i \in 1..Len(dispatched) :
    LET d == dispatched[i]
    IN  /\ (d.tool = "add_task" /\ ~d.raised
              /\ ~TouchedLater(i, d.res.rows[1].id,
                               {"delete_task", "complete_task", "update_task"}))
             => d.res.rows[1] \in Range(db.tasks)
        /\ (d.tool = "complete_task" /\ ~d.raised /\ d.res.kind = "dict"
              /\ ~TouchedLater(i, d.task_id, {"delete_task", "update_task"}))
             => \E r \in Range(db.tasks) : r.id = d.task_id /\ r.completed
        /\ (d.tool = "delete_task" /\ ~d.raised /\ d.res = ResBool(TRUE))
             => ~\E r \in Range(db.tasks) : r.id = d.task_id /\ r.user_id = d.user_id

\* C14 witness: a turn ended in the apology because the dispatch of an
\* unregistered tool raised, after an add_task call of the same text had
\* returned, and the added task is in the table
C14_Witness ==
  \E t \in Turns :
    /\ turn[t].pc = "returned" /\ turn[t].raised /\ ~turn[t].upstream
    /\ turn[t].result.message = Apology
    /\ Len(dispatched) >= 2
    /\ dispatched[1].tool = "add_task" /\ ~dispatched[1].raised
    /\ Last(dispatched).tool \notin Registry /\ Last(dispatched).raised
    /\ dispatched[1].res.rows[1] \in Range(db.tasks)

\* the entries of the log that belong to conversation c
LogOf(c) == SelectSeq(messages, LAMBDA m : m.conversation_id = c)

\* C15: a request saves its user entry and its assistant entry at the end of
\* the log whatever the log holds at that moment, also while another request
\* on the same conversation is between its two entries; the save neither
\* inspects the log nor fails because of the other request's entries.
C15_NotSerialised ==
  [][\A t \in ConcTurns :
       (/\ turn[t].pc \in {"save_user", "save_asst"}
        /\ turn'[t].pc \in {"history", "returned"})
         => /\ messages' = Append(messages,
                  [conversation_id |-> turn[t].conversation_id,
                   user_id |-> turn[t].user_id,
                   role |-> IF turn[t].pc = "save_user" THEN "user" ELSE "assistant",
                   content |-> IF turn[t].pc = "save_user"
                                 THEN turn[t].message_content ELSE turn[t].text])
            /\ ~turn'[t].raised]_vars

\* C15 witness: both requests returned without failing, on the same
\* conversation, and its log ends with the user entry of request 1, the
\* user entry of request 2 and then the two assistant entries, in either
\* order
C15_Witness ==
  LET log == LogOf(turn[1].conversation_id)
      n == Len(log)
  IN  /\ turn[1].conversation_id = turn[2].conversation_id
      /\ \A t \in ConcTurns : turn[t].pc = "returned" /\ ~turn[t].raised
      /\ turn[1].message_content # turn[2].message_content
      /\ turn[1].text # turn[2].text
      /\ n >= 4
      /\ log[n - 3].role = "user" /\ log[n - 3].content = turn[1].message_content
      /\ log[n - 2].role = "user" /\ log[n - 2].content = turn[2].message_content
      /\ log[n - 1].role = "assistant" /\ log[n].role = "assistant"
      /\ {log[n - 1].content, log[n].content} = {turn[1].text, turn[2].text}

\* the dispatches of request t, in order
DispatchesOf(t) == SelectSeq(dispatched, LAMBDA d : d.turn = t)

\* C16: on the intent path one dispatch precedes the only call of the
\* generative service and the scanner does not run on the reply; on the
\* free-form path the scanner runs after the only call of the generative
\* service; a turn that returns without failing has appended its assistant
\* text to the log, and the message it returns is the appended text.
C16_TurnOrder ==
  \A t \in Turns :
    /\ turn[t].pc = "explain"
         => /\ turn[t].intent # "" /\ turn[t].ai_calls = 0
            /\ Len(DispatchesOf(t)) = 1 /\ ~DispatchesOf(t)[1].raised
    /\ turn[t].pc \in {"passA", "passB"}
         => turn[t].intent = "" /\ turn[t].ai_calls = 1 /\ turn[t].scanned
    /\ (turn[t].pc \in {"returned", "done"} /\ turn[t].result.set /\ ~turn[t].raised)
         => /\ turn[t].ai_calls = 1
            /\ turn[t].intent # ""
                 => /\ Len(DispatchesOf(t)) = 1
                    /\ DispatchesOf(t)[1].path = "intent"
                    /\ DispatchesOf(t)[1].tool = turn[t].intent
                    /\ ~turn[t].scanned /\ turn[t].text = turn[t].raw
            /\ turn[t].intent = ""
                 => /\ turn[t].scanned
                    /\ \A d \in Range(DispatchesOf(t)) : d.path \in {"A", "B"}
            /\ Last(messages) = [conversation_id |-> turn[t].conversation_id,
                                  user_id |-> turn[t].user_id, role |-> "assistant",
                                  content |-> turn[t].result.message]
            /\ turn[t].result.conversation_id = turn[t].conversation_id

\* C16 witness: a turn of the intent path returned without failing, and
\* the explanation it returns holds an inline call that was left alone
C16_Witness ==
  \E t \in Turns :
    /\ turn[t].pc = "returned" /\ ~turn[t].raised /\ turn[t].intent # ""
    /\ PatternMatches(turn[t].raw) # {}
    /\ turn[t].result.message = turn[t].raw

\* C17: within one run of the scanner no call of Pass A is dispatched after
\* a call of Pass B; the calls Pass A takes from the generative service's
\* text are dispatched in the order they stand in that text, those Pass B
\* takes from it in the reverse of that order.
C17_DispatchOrder ==
  \A i, j \in 1..Len(dispatched) :
    (i < j /\ dispatched[i].turn = dispatched[j].turn
       /\ dispatched[i].path # "intent")
      => LET a == dispatched[i]
             b == dispatched[j]
         IN  /\ a.path = "B" => b.path = "B"
             /\ (a.path = "A" /\ b.path = "A" /\ a.origin > 0 /\ b.origin > 0)
                  => a.origin < b.origin
             /\ (a.path = "B" /\ b.path = "B" /\ a.origin > 0 /\ b.origin > 0)
                  => a.origin > b.origin

\* C17 witness: the scanner returned after Pass B dispatched two calls of
\* the text, the later one first
C17_Witness ==
  \E t \in Turns :
    /\ ScanDone(t) /\ Len(dispatched) = 2
    /\ dispatched[1].path = "B" /\ dispatched[2].path = "B"
    /\ dispatched[1].origin > dispatched[2].origin /\ dispatched[2].origin > 0

\* C17 witness of Pass A running first: a fenced call that stands after an
\* inline call in the text was dispatched before it
C17_WitnessFencedFirst ==
  \E t \in Turns :
    /\ ScanDone(t) /\ Len(dispatched) = 2
    /\ dispatched[1].path = "A" /\ dispatched[2].path = "B"
    /\ dispatched[1].origin > dispatched[2].origin /\ dispatched[2].origin > 0

\* opening minus closing braces among text[i..j]
Depth(text, i, j) ==
  Cardinality({k \in i..j : At(text, k) = "{"})
    - Cardinality({k \in i..j : At(text, k) = "}"})

\* the offsets at or after i where the depth counted from i is zero
Closings(text, i) == {j \in i..(Len(text) - 1) : Depth(text, i, j) = 0}

\* C18: at every offset of a text where a balanced object begins,
\* _extract_json_object returns exactly the lexemes from its opening brace to
\* the brace that closes it, and the offset after that brace; from an offset
\* after which the depth never comes back to zero it returns no object and
\* the offset it was given.
C18_ExtractBalanced ==
  \A t \in Turns :
    turn[t].scanned =>
      \A i \in 0..(Len(turn[t].raw) - 1) :
        LET raw == turn[t].raw
            ex == _extract_json_object(raw, i)
        IN  /\ (At(raw, i) = "{" /\ Closings(raw, i) # {})
                 => /\ ex.found /\ ex.from = i
                    /\ ex.end = Min(Closings(raw, i)) + 1
                    /\ ex.obj = SubSeq(raw, i + 1, ex.end)
            /\ Closings(raw, i) = {}
                 => ~ex.found /\ ex.end = i

\* C18 witness: Pass B dispatched a call it extracted from a text that also
\* holds an opening brace that is never closed
C18_Witness ==
  \E t \in Turns :
    /\ ScanDone(t) /\ Len(dispatched) = 1 /\ dispatched[1].path = "B"
    /\ \E i \in 0..(Len(turn[t].raw) - 1) :
         At(turn[t].raw, i) = "{" /\ Closings(turn[t].raw, i) = {}

\* the separators that occur in message, by their place in the priority list
Present(message) == {k \in 1..Len(Separators) : Contains(message, Separators[k])}

\* the text after the first occurrence of the k-th separator, trimmed and
\* with surrounding quotes removed
FieldAfter(message, k) == CleanTitle(AfterFirst(message, Separators[k]))

\* the separators that occur in message and leave a non-empty field
WithText(message) == {k \in Present(message) : FieldAfter(message, k) # <<>>}

\* the intent path has extracted the field of an add_task message and the
\* dispatch has returned
AddExtracted(t) == turn[t].intent = "add_task" /\ turn[t].pc = "explain"

\* C19 as stated: for an add_task message the field is the trimmed and
\* de-quoted text after the first separator of the priority list that occurs
\* in the message, also when that text is empty, and the trimmed raw message
\* only when no separator occurs.
C19_FirstPresentSeparator ==
  \A t \in Turns :
    AddExtracted(t) =>
      LET m == turn[t].message_content
      IN  turn[t].extracted_info =
            IF Present(m) = {} THEN Strip(m) ELSE FieldAfter(m, Min(Present(m)))

\* C19 amended: for an add_task message the field is the trimmed and
\* de-quoted text after the first separator of the priority list (double
\* quote, single quote, "task", "for me", "me", "to") that occurs in the
\* message and leaves a non-empty text; when no separator occurs, or every
\* separator that occurs leaves an empty text, it is the trimmed raw message.
\* The task created is titled with that field.
C19_FirstSeparatorWithText ==
  \A t \in Turns :
    AddExtracted(t) =>
      LET m == turn[t].message_content
      IN  /\ turn[t].extracted_info =
                IF WithText(m) = {} THEN Strip(m) ELSE FieldAfter(m, Min(WithText(m)))
          /\ turn[t].extracted_info # <<>>
          /\ Last(db.tasks).title = turn[t].extracted_info

\* C19 witness: the field of an add_task message was extracted where the
\* first separator that occurs leaves an empty text and a later one does not
C19_Witness ==
  \E t \in Turns :
    /\ AddExtracted(t)
    /\ WithText(turn[t].message_content) # {}
    /\ Min(Present(turn[t].message_content)) \notin WithText(turn[t].message_content)

\* the fenced blocks of raw as the loop of Pass A pairs the fences from
\* offset pos on when it accepts none of them
RECURSIVE FencedCandidates(_, _)
FencedCandidates(raw, pos) ==
  LET blk == FencedBlock(raw, pos)
  IN  IF ~blk.found THEN {} ELSE {blk} \cup FencedCandidates(raw, blk.end_pos + 3)

\* the inner text of the block does not read as an object that opens with a
\* "tool" member: it is no JSON at all, or a mapping without the two keys
FencedMalformed(raw, blk) ==
  LET c == Strip(Slice(raw, blk.opening_end + 1, blk.end_pos))
  IN  Len(c) < 2 \/ c[1] # "{" \/ c[2] \notin DOMAIN HeadTool

\* offset of the head lexeme of the inline candidate that starts at offset i
HeadAt(raw, i) ==
  Min({j \in (i + 1)..(Len(raw) - 1) : At(raw, j) \in RegexHeads})

\* the inline candidate at offset i is written with single quotes, which
\* does not decode, or its braces never balance
InlineMalformed(raw, i) ==
  At(raw, HeadAt(raw, i)) = H_sq_add \/ Closings(raw, i) = {}

\* the offsets of raw each malformed candidate covers: a fenced block with
\* its fences, an inline object up to its closing brace, or up to its head
\* when it is never closed
MalformedSpans(raw) ==
  {(blk.start_pos)..(blk.end_pos + 2) :
     blk \in {b \in FencedCandidates(raw, 0) : FencedMalformed(raw, b)}}
  \cup
  {IF Closings(raw, i) = {} THEN i..HeadAt(raw, i) ELSE i..Min(Closings(raw, i)) :
     i \in {k \in PatternMatches(raw) : InlineMalformed(raw, k)}}

\* the scanner passes over a candidate in this step: the position of Pass A
\* or the index of Pass B moves and no call is handed to a tool
Rejecting(t) ==
  /\ turn[t].pc \in {"passA", "passB"} /\ turn'[t].pc = turn[t].pc
  /\ turn'[t] # turn[t]
  /\ Len(turn'[t].confs) = Len(turn[t].confs)

FencedCalls(raw) ==
  {blk \in FencedCandidates(raw, 0) :
     LET parsed == JsonLoads(Strip(Slice(raw, blk.opening_end + 1, blk.end_pos)))
     IN  parsed.isCall /\ parsed.tool \in Registry}

\* C21: accepting a fenced block removes that block and no other, a block
\* with the very same characters included, so that every well-formed fenced
\* call of the text is dispatched in its own right: when the scanner returns,
\* Pass A has dispatched as many calls of the text as it holds well-formed
\* fenced calls, and every one of those blocks is gone from the text.
C21_EveryFencedCallDispatched ==
  \A t \in Turns :
    ScanDone(t) =>
      /\ Cardinality({i \in 1..Len(dispatched) :
                        dispatched[i].path = "A" /\ dispatched[i].origin > 0})
           = Cardinality(FencedCalls(turn[t].raw))
      /\ \A blk \in FencedCalls(turn[t].raw) :
           \A o \in (blk.start_pos)..(blk.end_pos + 2) : o + 1 \notin Range(turn[t].org)

\* C22: every call the scanner dispatches starts at a character of the text
\* the generative service returned; none starts in text the Rewriter
\* appended (an echoed title, an inlined list_tasks result).
C22_NoDispatchFromAppendedText ==
  \A i \in 1..Len(dispatched) :
    dispatched[i].path \in {"A", "B"} => dispatched[i].origin > 0

\* request t takes a step inside the scanner
ScannerStep(t) == turn[t].pc \in {"passA", "passB"} /\ turn'[t] # turn[t]

\* what is left to do for the scanner of a request with locals r: the pass
\* (2 in Pass A, 1 in Pass B, 0 outside), the fences in the text, the
\* lexemes from pos to the end of the text, the offsets Pass B has yet to
\* visit
Remaining(r) ==
  << IF r.pc = "passA" THEN 2 ELSE IF r.pc = "passB" THEN 1 ELSE 0,
     Cardinality({i \in 1..Len(r.text) : r.text[i] = BT}),
     IF r.pos > Len(r.text) THEN 0 ELSE Len(r.text) - r.pos,
     r.k >>

\* tuples of four naturals in lexicographic order
LexLess(a, b) ==
  \E n \in 1..4 : a[n] < b[n] /\ \A m \in 1..(n - 1) : a[m] = b[m]

\* C23: the scanner terminates. Every step of it makes what is left to do
\* smaller in a well-founded order: an accepted block of Pass A takes fences
\* out of the text although the scan restarts at offset zero and text is
\* appended, a block passed over moves pos forward, and a step of Pass B
\* moves to the next of the precomputed offsets, which are pairwise different
\* and fixed during Pass B, so that each is visited exactly once.
C23_ScannerTerminates ==
  [][\A t \in Turns :
       /\ ScannerStep(t)
            => /\ LexLess(Remaining(turn'[t]), Remaining(turn[t]))
               /\ \A n \in 1..4 : Remaining(turn'[t])[n] >= 0
       /\ (turn[t].pc = "passA" /\ turn'[t].pc = "passB")
            => /\ turn'[t].k = Len(turn'[t].start_positions)
               /\ \A a, b \in 1..Len(turn'[t].start_positions) :
                    a < b => turn'[t].start_positions[a] < turn'[t].start_positions[b]
       /\ (turn[t].pc = "passB" /\ turn'[t] # turn[t])
            => /\ turn'[t].start_positions = turn[t].start_positions
               /\ \/ turn'[t].pc = "passB" /\ turn'[t].k = turn[t].k - 1
                  \/ turn'[t].pc = "except" /\ turn'[t].raised
                  \/ turn'[t].pc = "save_asst" /\ turn[t].k = 0]_vars

\* C23 witness: the scanner returned after Pass A accepted two fenced calls
\* of the text, restarting after each
C23_Witness ==
  \E t \in Turns :
    /\ ScanDone(t) /\ Len(dispatched) = 2
    /\ \A i \in 1..2 : dispatched[i].path = "A" /\ dispatched[i].origin > 0

\* user u owns a conversation with id cid
Owns(u, cid) == \E i \in 1..Len(convs) : convs[i].id = cid /\ convs[i].user_id = u

\* the rows of the message table in conversations of user u
MessagesOf(u) == SelectSeq(messages, LAMBDA m : Owns(u, m.conversation_id))

\* request t has returned from process_message after naming a conversation
\* its caller does not own
ForeignReturned(t) ==
  /\ turn[t].result.set
  /\ turn[t].req_conv # ""
  /\ ~Owns(turn[t].user_id, turn[t].req_conv)

\* the conversation rows the program inserted
Created == {i \in 1..Len(convs) : convs[i].id = NewConvId(i)}

\* request t reads and writes only conversations of its caller: every row of
\* the message table lies in a conversation of its author, the conversations
\* of the other user hold what they held before the turn, and the history
\* read holds rows of the caller's conversations only
OwnConversationOnly(t) ==
  /\ \A i \in 1..Len(messages) : Owns(messages[i].user_id, messages[i].conversation_id)
  /\ Len(MessagesOf("u2")) = 1
  /\ \A i \in 1..Len(turn[t].history) :
       /\ Owns(turn[t].user_id, turn[t].history[i].conversation_id)
       /\ turn[t].history[i].conversation_id = turn[t].conversation_id

====
